---- MODULE Spec2Model ----
(***************************************************************************)
(* Model of the simulation core of src/game.py: Game.add_game_object and   *)
(* Game.update (snapshot, motion update, collision check, rollback).       *)
(*                                                                         *)
(* Coordinates are integers.  A distance comparison  d < r  of the code is *)
(* made on squares (d^2 < r^2), a perpendicular foot is kept as a pair of  *)
(* numerators over the common denominator |p2 - p1|^2, and an orientation  *)
(* is a number of quarter turns, so that every predicate of the code is    *)
(* evaluated exactly.                                                      *)
(***************************************************************************)
EXTENDS Integers, Sequences, FiniteSets, TLC

VARIABLES
    map_config,    \* the values the constructor / callers may register
    game_objects,  \* Game.game_objects: the registered objects, in order
    raised,        \* outcome of the last add_game_object call
    lastArg,       \* argument of the last add_game_object call
    pc,            \* position in the program: setup, idle, object, check, resolve
    t_interval,    \* argument of the running Game.update
    i,             \* index of game_obj in the outer loop of update
    j,             \* index of another_obj in the inner loop of update
    old_pose,      \* old_pose = deepcopy(game_obj.pose)
    collision,     \* the collision flag of the robot under test
    evals,         \* predicates evaluated so far for the robot under test
    preTick,       \* poses of all objects when the running update was entered
    moved,         \* pose of game_obj right after its own motion update
    final,         \* poses the objects already processed in this tick were left at
    cleanAtStart   \* no robot satisfied the collision predicate at tick start

vars == <<map_config, game_objects, raised, lastArg, pc, t_interval, i, j,
          old_pose, collision, evals, preTick, moved, final, cleanAtStart>>

----------------------------------------------------------------------------
(* Bounds of the model *)

\* world coordinate of the corner of the explored part of the arena
Origin == 10000

\* robots move on the points Origin .. Origin + GridMax in x and in y
GridMax == 2

\* math.isclose(..., rel_tol=1e-4): the tolerance is 1 / RelTolInv
RelTolInv == 10000

----------------------------------------------------------------------------
(* Vector / pose algebra (physics.Vector2D, Orient2D, Pose2D) *)

Abs(n) == IF n < 0 THEN -n ELSE n

Max2(a, b) == IF a >= b THEN a ELSE b

Min2(a, b) == IF a <= b THEN a ELSE b

Vector2D(x, y) == <<x, y>>

Pose2D(position, orientation) ==
    [position |-> position, orientation |-> orientation]

VAdd(a, b) == <<a[1] + b[1], a[2] + b[2]>>

\* Vector2D.rotate by q quarter turns about the origin
Rotate(v, q) ==
    CASE q % 4 = 0 -> v
      [] q % 4 = 1 -> <<-v[2], v[1]>>
      [] q % 4 = 2 -> <<-v[1], -v[2]>>
      [] q % 4 = 3 -> <<v[2], -v[1]>>

\* square of Vector2D.find_distance
DistSq(a, b) == (a[1] - b[1]) * (a[1] - b[1]) + (a[2] - b[2]) * (a[2] - b[2])

----------------------------------------------------------------------------
(* Object model (game_objects.GameObject and its variants) *)

NoPose == Pose2D(Vector2D(0, 0), 0)

\* local-frame vertex ring of a rectangle with the given half extents
Rectangle(hx, hy) == <<Vector2D(-hx, -hy), Vector2D(hx, -hy),
                       Vector2D(hx, hy), Vector2D(-hx, hy)>>

Robot(pose, radius, robot_id) ==
    [type |-> "Robot", pose |-> pose, radius |-> radius,
     vertex |-> <<>>, id |-> robot_id]

Wall(pose, half_length, half_thickness) ==
    [type |-> "Wall", pose |-> pose, radius |-> 0,
     vertex |-> Rectangle(half_length, half_thickness), id |-> 0]

Zone(pose, half_side, zone_id) ==
    [type |-> "Zone", pose |-> pose, radius |-> 0,
     vertex |-> Rectangle(half_side, half_side), id |-> zone_id]

\* a value of some other Python type, handed to add_game_object
Value(type_name) ==
    [type |-> type_name, pose |-> NoPose, radius |-> 0,
     vertex |-> <<>>, id |-> 0]

\* the classes for which isinstance(obj, GameObject) holds
GameObjectTypes == {"GameObject", "Robot", "Wall", "Zone"}

\* the grid a robot's centre moves on
Coord == Origin .. (Origin + GridMax)

\* GameObject.update(t_interval): the poses the external motion integrator
\* may leave the object in.  Only robots move; nothing moves when dt = 0.
Advance(obj, dt) ==
    IF obj.type # "Robot" \/ dt = 0
    THEN {obj.pose}
    ELSE LET p == obj.pose.position
             o == obj.pose.orientation
         IN  {obj.pose, Pose2D(p, (o + 1) % 2)}
             \cup {Pose2D(q, o) : q \in {Vector2D(p[1] + dt, p[2]),
                                         Vector2D(p[1] - dt, p[2]),
                                         Vector2D(p[1], p[2] + dt),
                                         Vector2D(p[1], p[2] - dt)}
                                        \cap (Coord \X Coord)}

\* GameObject.moveTo(pose)
moveTo(obj, pose) == [obj EXCEPT !.pose = pose]

----------------------------------------------------------------------------
(* Geometry primitives (collision_engine_2d) *)

LineSegment2D(p1, p2) == [point1 |-> p1, point2 |-> p2]

\* edge.find_perpendicular(through_point).find_intersection(edge): the foot
\* of the perpendicular from c on the edge's line, as numerators x, y over
\* the denominator den; found is FALSE when the lines do not meet in one point.
FindIntersection(edge, c) ==
    LET dx  == edge.point2[1] - edge.point1[1]
        dy  == edge.point2[2] - edge.point1[2]
        den == dx * dx + dy * dy
        num == (c[1] - edge.point1[1]) * dx + (c[2] - edge.point1[2]) * dy
    IN  IF den = 0
        THEN [found |-> FALSE, den |-> 1, x |-> 0, y |-> 0]
        ELSE [found |-> TRUE, den |-> den,
              x |-> edge.point1[1] * den + num * dx,
              y |-> edge.point1[2] * den + num * dy]

\* edge.find_distance(c): the distance from c to the edge's infinite line;
\* its square is num / den
FindDistanceSq(edge, c) ==
    LET dx    == edge.point2[1] - edge.point1[1]
        dy    == edge.point2[2] - edge.point1[2]
        cross == dx * (c[2] - edge.point1[2]) - dy * (c[1] - edge.point1[1])
    IN  [num |-> cross * cross, den |-> dx * dx + dy * dy]

\* math.isclose(a, b, rel_tol=1e-4): abs(a-b) <= rel_tol * max(abs(a), abs(b))
IsClose(a, b) == Abs(a - b) * RelTolInv <= Max2(Abs(a), Abs(b))

----------------------------------------------------------------------------
(* Game.update: the collision predicates, lines 126-203 *)

\* IsOtherRobot without the identity test (game_obj is not another_obj)
IsAnyRobot(objs, a, b) == objs[b].type = "Robot"

\* type(another_obj) is Robot and game_obj is not another_obj; the objects of
\* game_objects are distinct, so identity is equality of index
IsOtherRobot(objs, a, b) == objs[b].type = "Robot" /\ a # b

\* IsWall with zones taken for walls
IsWallOrZone(obj) == obj.type \in {"Wall", "Zone"}

\* type(another_obj) is Wall
IsWall(obj) == obj.type = "Wall"

\* OtherPosition read from a snapshot of all poses taken at tick start
OtherPositionAtTickStart(objs, b) ==
    IF b \in DOMAIN preTick THEN preTick[b].position ELSE objs[b].pose.position

\* another_obj.pose.position, as the check of game_obj reads it
OtherPosition(objs, b) == objs[b].pose.position

\* RobotDistanceLess with <= in place of <
RobotDistanceLessOrEqual(objs, a, b) ==
    LET sum == objs[a].radius + objs[b].radius
    IN  DistSq(objs[a].pose.position, objs[b].pose.position) <= sum * sum

\* RobotDistanceLess with the radius of another_obj left out
RobotDistanceOwnRadius(objs, a, b) ==
    LET sum == objs[a].radius
    IN  DistSq(objs[a].pose.position, objs[b].pose.position) < sum * sum

\* game_obj.pose.position.find_distance(another_obj.pose.position)
\*     < game_obj.radius + another_obj.radius
RobotDistanceLess(objs, a, b) ==
    LET sum == objs[a].radius + objs[b].radius
    IN  DistSq(objs[a].pose.position, OtherPosition(objs, b)) < sum * sum

\* new_v = v.rotate(another_obj.pose.orientation.z); new_v += position
WorldVertex(wall, k) ==
    VAdd(Rotate(wall.vertex[k], wall.pose.orientation), wall.pose.position)

\* new_v.find_distance(game_obj.pose.position) < game_obj.radius
VertexHit(new_v, c, r) == DistSq(new_v, c) < r * r

\* one entry of the record of evaluated predicates
Eval(b, test, k, result) ==
    [obj |-> b, test |-> test, idx |-> k, result |-> result]

\* for v in vertex: ... (lines 142-157), from the k-th vertex on.
\* st = [collision, coords, log]
RECURSIVE VertexLoop(_, _, _, _, _, _)
VertexLoop(wall, b, c, r, k, st) ==
    IF k > Len(wall.vertex) \/ st.collision
    THEN st
    ELSE LET new_v == WorldVertex(wall, k)
             hit   == VertexHit(new_v, c, r)
             log   == Append(st.log, Eval(b, "vertex", k, hit))
         IN  IF hit
             THEN [st EXCEPT !.collision = TRUE, !.log = log]
             ELSE VertexLoop(wall, b, c, r, k + 1,
                             [st EXCEPT !.coords = Append(st.coords, new_v),
                                        !.log = log])

\* BuildEdges without the closing edge (range(len(coords) - 1))
BuildEdgesOpen(coords, coll) ==
    IF coll \/ Len(coords) = 0
    THEN <<>>
    ELSE [k \in 1 .. Len(coords) - 1 |-> LineSegment2D(coords[k], coords[k + 1])]

\* for i in range(len(coords)): ... (lines 159-167)
BuildEdges(coords, coll) ==
    IF coll
    THEN <<>>
    ELSE [k \in 1 .. Len(coords) |->
             LineSegment2D(coords[k], coords[(k % Len(coords)) + 1])]

\* lines 180-192: the foot lies in the edge's bounding box, bounds inclusive
\* and each bound relaxed by math.isclose
InBoundingBox(edge, foot) ==
    LET xmax == Max2(edge.point1[1], edge.point2[1]) * foot.den
        xmin == Min2(edge.point1[1], edge.point2[1]) * foot.den
        ymax == Max2(edge.point1[2], edge.point2[2]) * foot.den
        ymin == Min2(edge.point1[2], edge.point2[2]) * foot.den
    IN  /\ (foot.x <= xmax \/ IsClose(foot.x, xmax))
        /\ (foot.x >= xmin \/ IsClose(foot.x, xmin))
        /\ (foot.y <= ymax \/ IsClose(foot.y, ymax))
        /\ (foot.y >= ymin \/ IsClose(foot.y, ymin))

\* lines 172-199: the test of one edge
EdgeHit(edge, c, r) ==
    LET intersetion == FindIntersection(edge, c)
        d2          == FindDistanceSq(edge, c)
    IN  /\ intersetion.found
        /\ InBoundingBox(edge, intersetion)
        /\ d2.num < r * r * d2.den

\* for edge in edges: ... (lines 169-203), from the k-th edge on
RECURSIVE EdgeLoop(_, _, _, _, _, _)
EdgeLoop(edges, b, c, r, k, st) ==
    IF k > Len(edges) \/ st.collision
    THEN st
    ELSE LET hit == EdgeHit(edges[k], c, r)
             log == Append(st.log, Eval(b, "edge", k, hit))
         IN  IF hit
             THEN [st EXCEPT !.collision = TRUE, !.log = log]
             ELSE EdgeLoop(edges, b, c, r, k + 1, [st EXCEPT !.log = log])

\* if type(another_obj) is Wall: ... (lines 139-203)
WallCheck(wall, b, c, r, coll, log) ==
    LET afterV == VertexLoop(wall, b, c, r, 1,
                             [collision |-> coll, coords |-> <<>>, log |-> log])
        edges  == BuildEdges(afterV.coords, afterV.collision)
    IN  EdgeLoop(edges, b, c, r, 1, afterV)

\* the whole collision check of robot a against the objects objs (lines
\* 124-203), as a truth value
Collides(objs, a) ==
    \E b \in 1 .. Len(objs) :
        \/ IsOtherRobot(objs, a, b) /\ RobotDistanceLess(objs, a, b)
        \/ /\ IsWall(objs[b])
           /\ WallCheck(objs[b], b, objs[a].pose.position, objs[a].radius,
                        FALSE, <<>>).collision

\* no robot of objs satisfies the collision predicate
NoOverlap(objs) ==
    \A a \in 1 .. Len(objs) : objs[a].type = "Robot" => ~Collides(objs, a)

----------------------------------------------------------------------------
(* Game.add_game_object, lines 104-111 *)

\* IsGameObject with the type test left out
IsAnything(obj) == TRUE

\* isinstance(obj, GameObject)
IsGameObject(obj) == obj.type \in GameObjectTypes

\* "Cannot add '{:}' type as a game object.".format(type(obj).__name__)
TypeErrorMessage(obj) ==
    <<"TypeError", "Cannot add '", obj.type, "' type as a game object.">>

\* self.game_objects.append(obj)
Registered(objs, obj) == Append(objs, obj)

NoError == <<>>

Poses(objs) == [k \in 1 .. Len(objs) |-> objs[k].pose]

\* the locals of update before the loop is entered / after it returned
Returned ==
    /\ pc' = "idle"
    /\ i' = 0
    /\ j' = 0
    /\ old_pose' = NoPose
    /\ moved' = NoPose
    /\ collision' = FALSE
    /\ evals' = <<>>
    /\ preTick' = <<>>
    /\ final' = <<>>

\* the values the construction has not registered yet (every registered
\* object is a fresh one: lines 59-101)
Fresh == {v \in map_config : \A k \in 1 .. Len(game_objects) : game_objects[k] # v}

add_game_object(obj) ==
    /\ pc = "setup"
    /\ lastArg' = obj
    /\ IF ~IsGameObject(obj)
       THEN /\ raised' = TypeErrorMessage(obj)
            /\ game_objects' = game_objects
       ELSE /\ raised' = NoError
            /\ game_objects' = Registered(game_objects, obj)
    /\ UNCHANGED <<map_config, pc, t_interval, i, j, old_pose, collision,
                   evals, preTick, moved, final, cleanAtStart>>

----------------------------------------------------------------------------
(* Game.update, lines 114-206 *)

\* the time deltas update is called with (run() passes 1, line 211)
TimeDeltas == {0, 1}

\* update(t_interval) is entered
update(dt) ==
    /\ pc \in {"setup", "idle"}
    /\ t_interval' = dt
    /\ cleanAtStart' = NoOverlap(game_objects)
    /\ IF Len(game_objects) = 0
       THEN Returned
       ELSE /\ pc' = "object"
            /\ i' = 1
            /\ preTick' = Poses(game_objects)
            /\ UNCHANGED <<j, old_pose, moved, final, collision, evals>>
    /\ UNCHANGED <<map_config, game_objects, raised, lastArg>>

\* the outer loop goes on to the next object
Continue ==
    /\ pc' = "object"
    /\ i' = i + 1
    /\ UNCHANGED preTick

\* lines 118-124: snapshot, motion update, and the type test
ObjectStep ==
    /\ pc = "object"
    /\ \E p \in Advance(game_objects[i], t_interval) :
          /\ game_objects' = [game_objects EXCEPT ![i].pose = p]
          /\ IF game_objects[i].type = "Robot"
             THEN /\ pc' = "check"
                  /\ old_pose' = game_objects[i].pose
                  /\ moved' = p
                  /\ collision' = FALSE
                  /\ j' = 1
                  /\ evals' = <<>>
                  /\ UNCHANGED <<i, preTick, final>>
             ELSE IF i = Len(game_objects)
             THEN Returned
             ELSE /\ Continue
                  /\ old_pose' = game_objects[i].pose
                  /\ moved' = p
                  /\ final' = Append(final, p)
                  /\ UNCHANGED <<j, collision, evals>>
    /\ UNCHANGED <<map_config, raised, lastArg, t_interval, cleanAtStart>>

\* lines 126-203: one pass of the inner loop, for another_obj = game_objects[j]
CheckStep ==
    /\ pc = "check"
    /\ LET game_obj    == game_objects[i]
           another_obj == game_objects[j]
           isRobot     == IsOtherRobot(game_objects, i, j)
           robotHit    == isRobot /\ RobotDistanceLess(game_objects, i, j)
           log         == IF isRobot
                          THEN Append(evals, Eval(j, "robot", 0, robotHit))
                          ELSE evals
           st          == IF IsWall(another_obj)
                          THEN WallCheck(another_obj, j,
                                         game_obj.pose.position,
                                         game_obj.radius, collision, log)
                          ELSE [collision |-> collision, coords |-> <<>>,
                                log |-> log]
       IN  IF robotHit
           THEN /\ collision' = TRUE
                /\ evals' = log
                /\ pc' = "resolve"
                /\ j' = j
           ELSE /\ collision' = st.collision
                /\ evals' = st.log
                /\ IF j = Len(game_objects)
                   THEN pc' = "resolve" /\ j' = j
                   ELSE pc' = "check" /\ j' = j + 1
    /\ UNCHANGED <<map_config, game_objects, raised, lastArg, t_interval, i,
                   old_pose, preTick, moved, final, cleanAtStart>>

\* ResolveObjects without the rollback
ResolveNoRollback(objs, a, b, coll, old) == objs

\* ResolveObjects with moveTo called on another_obj, which is still bound
\* to the last object the inner loop looked at
ResolveMovesOther(objs, a, b, coll, old) ==
    IF coll THEN [objs EXCEPT ![b] = moveTo(objs[b], old)] ELSE objs

\* lines 205-206: if collision: game_obj.moveTo(old_pose)
ResolveObjects(objs, a, b, coll, old) ==
    IF coll THEN [objs EXCEPT ![a] = moveTo(objs[a], old)] ELSE objs

Resolve ==
    /\ pc = "resolve"
    /\ game_objects' = ResolveObjects(game_objects, i, j, collision, old_pose)
    /\ IF i = Len(game_objects)
       THEN Returned
       ELSE /\ Continue
            /\ final' = Append(final, game_objects'[i].pose)
            /\ UNCHANGED <<j, old_pose, moved, collision, evals>>
    /\ UNCHANGED <<map_config, raised, lastArg, t_interval, cleanAtStart>>

----------------------------------------------------------------------------
(* Configurations and specifications *)

\* the point of the explored grid with the local coordinates x, y
P(x, y) == Vector2D(Origin + x, Origin + y)

TheWall == Wall(Pose2D(P(3, 3), 0), 2, 1)

TheZone == Zone(Pose2D(P(1, 1), 0), 1, 7)

\* two robots, which start overlapping or tangent, and a wall
TwoRobotConfigs ==
    {{Robot(Pose2D(P(0, 0), 0), 1, 1), Robot(Pose2D(P(x, 0), 0), 1, 2),
      TheWall, Value("int")} : x \in {1, 2}}

\* two robots and a zone; one robot, a zone and a wall
ZoneConfigs ==
    {{Robot(Pose2D(P(0, 0), 0), 1, 1), Robot(Pose2D(P(2, 2), 1), 1, 2),
      TheZone},
     {Robot(Pose2D(P(0, 0), 0), 1, 1), TheZone, TheWall, Value("Pose2D")}}

\* one robot of radius 1 or 2 anywhere on the grid and one wall, in each
\* orientation and at several places
WallConfigs ==
    {{Robot(Pose2D(Vector2D(x, y), 0), r, 1), Wall(Pose2D(w, q), 2, 1),
      Value("str")} :
        <<x, y, r, w, q>> \in
            Coord \X Coord \X {1, 2} \X {P(3, 3), P(1, 4), P(-1, 1)} \X (0 .. 3)}

MapConfigs == TwoRobotConfigs \cup ZoneConfigs \cup WallConfigs

TypeOK ==
    /\ pc \in {"setup", "idle", "object", "check", "resolve"}
    /\ collision \in BOOLEAN
    /\ t_interval \in TimeDeltas
    /\ i \in 0 .. Len(game_objects)
    /\ j \in 0 .. Len(game_objects)

InitState ==
    /\ game_objects = <<>>
    /\ raised = NoError
    /\ lastArg = Value("NoneType")
    /\ pc = "setup"
    /\ t_interval = 0
    /\ i = 0
    /\ j = 0
    /\ old_pose = NoPose
    /\ moved = NoPose
    /\ collision = FALSE
    /\ evals = <<>>
    /\ preTick = <<>>
    /\ final = <<>>
    /\ cleanAtStart = TRUE

Init == map_config \in MapConfigs /\ InitState

Next ==
    \/ \E obj \in Fresh : add_game_object(obj)
    \/ \E dt \in TimeDeltas : update(dt)
    \/ ObjectStep
    \/ CheckStep
    \/ Resolve

Spec == Init /\ [][Next]_vars

----------------------------------------------------------------------------
(* The geometry the properties are stated in, written out from the         *)
(* specification's wording and independent of the operators above          *)

InTick == pc \in {"object", "check", "resolve"}

IsRobotAt(objs, k) == objs[k].type = "Robot"

\* the centres of a and b are strictly closer than the sum of the radii
CirclesOverlap(objs, a, b) ==
    LET pa == objs[a].pose.position
        pb == objs[b].pose.position
        dx == pa[1] - pb[1]
        dy == pa[2] - pb[2]
        s  == objs[a].radius + objs[b].radius
    IN  dx * dx + dy * dy < s * s

\* the centres of a and b are exactly the sum of the radii apart
CirclesTangent(objs, a, b) ==
    LET pa == objs[a].pose.position
        pb == objs[b].pose.position
        dx == pa[1] - pb[1]
        dy == pa[2] - pb[2]
        s  == objs[a].radius + objs[b].radius
    IN  dx * dx + dy * dy = s * s

\* cosine and sine of q quarter turns
Cos4(q) == CASE q % 4 = 0 -> 1 [] q % 4 = 1 -> 0 [] q % 4 = 2 -> -1 [] OTHER -> 0

Sin4(q) == CASE q % 4 = 0 -> 0 [] q % 4 = 1 -> 1 [] q % 4 = 2 -> 0 [] OTHER -> -1

\* the k-th vertex of the polygon of obj in the world frame: rotated by the
\* orientation, then translated by the position
WorldFrame(obj, k) ==
    LET v == obj.vertex[k]
        q == obj.pose.orientation
    IN  <<v[1] * Cos4(q) - v[2] * Sin4(q) + obj.pose.position[1],
          v[1] * Sin4(q) + v[2] * Cos4(q) + obj.pose.position[2]>>

\* value / den lies in [lo, hi], each bound taken with the relative
\* tolerance 1e-4
WithinTolerant(value, den, lo, hi) ==
    /\ \/ value <= hi * den
       \/ 10000 * Abs(value - hi * den) <= Max2(Abs(value), Abs(hi * den))
    /\ \/ value >= lo * den
       \/ 10000 * Abs(value - lo * den) <= Max2(Abs(value), Abs(lo * den))

\* some world-frame vertex of obj is strictly closer to c than r
CornerWithin(obj, c, r) ==
    \E k \in 1 .. Len(obj.vertex) :
        LET w == WorldFrame(obj, k)
        IN  (w[1] - c[1]) * (w[1] - c[1]) + (w[2] - c[2]) * (w[2] - c[2]) < r * r

\* the edge from the k-th vertex of obj to the next one (the last one is
\* followed by the first) has the perpendicular foot of c inside its
\* bounding box and its line strictly closer to c than r
EdgeWithin(obj, k, c, r) ==
    LET n   == Len(obj.vertex)
        p   == WorldFrame(obj, k)
        q   == WorldFrame(obj, IF k = n THEN 1 ELSE k + 1)
        ex  == q[1] - p[1]
        ey  == q[2] - p[2]
        len == ex * ex + ey * ey
        t   == (c[1] - p[1]) * ex + (c[2] - p[2]) * ey
        fx  == p[1] * len + t * ex
        fy  == p[2] * len + t * ey
        area == ex * (c[2] - p[2]) - ey * (c[1] - p[1])
    IN  /\ len > 0
        /\ WithinTolerant(fx, len, Min2(p[1], q[1]), Max2(p[1], q[1]))
        /\ WithinTolerant(fy, len, Min2(p[2], q[2]), Max2(p[2], q[2]))
        /\ area * area < r * r * len

\* the robot-vs-Wall predicate of the specification
WallOverlap(obj, c, r) ==
    \/ CornerWithin(obj, c, r)
    \/ \E k \in 1 .. Len(obj.vertex) : EdgeWithin(obj, k, c, r)

\* robot a overlaps another robot or a wall of objs
Overlaps(objs, a) ==
    \E b \in 1 .. Len(objs) :
        \/ IsRobotAt(objs, b) /\ b # a /\ CirclesOverlap(objs, a, b)
        \/ /\ objs[b].type = "Wall"
           /\ WallOverlap(objs[b], objs[a].pose.position, objs[a].radius)

\* objs with the poses replaced by those of poses
WithPoses(objs, poses) ==
    [k \in 1 .. Len(objs) |-> [objs[k] EXCEPT !.pose = poses[k]]]

----------------------------------------------------------------------------
(* C9 *)

\* C9: for the robot under test and every registered wall, the code's wall
\* check (vertex loop, then edge loop over the closed ring) is positive
\* exactly when a world-frame vertex is strictly within the radius or some
\* edge, the closing one included, has the perpendicular foot inside its
\* tolerant bounding box and its line strictly within the radius; and the
\* check tests every vertex of a wall before any of its edges.
C9_WallPredicate ==
    pc \in {"check", "resolve"} =>
        /\ \A b \in 1 .. Len(game_objects) :
              game_objects[b].type = "Wall" =>
                  WallCheck(game_objects[b], b, game_objects[i].pose.position,
                            game_objects[i].radius, FALSE, <<>>).collision
                  = WallOverlap(game_objects[b], game_objects[i].pose.position,
                                game_objects[i].radius)
        /\ \A m, n \in 1 .. Len(evals) :
              (m < n /\ evals[m].obj = evals[n].obj /\ evals[m].test = "edge")
                  => evals[n].test = "edge"
        /\ \A n \in 1 .. Len(evals) :
              evals[n].test = "edge" =>
                  \A k \in 1 .. Len(game_objects[evals[n].obj].vertex) :
                      \E m \in 1 .. n : /\ evals[m].obj = evals[n].obj
                                        /\ evals[m].test = "vertex"
                                        /\ evals[m].idx = k
                                        /\ ~evals[m].result

\* C9 witness: a collision found by the closing edge (last vertex back to
\* the first) of a wall, after all four vertices and three edges were negative
C9_Witness ==
    /\ pc = "resolve"
    /\ collision
    /\ Len(evals) > 0
    /\ evals[Len(evals)].test = "edge"
    /\ evals[Len(evals)].idx = 4
    /\ evals[Len(evals)].result

\* the perpendicular foot of c on the k-th edge of obj lies in the edge's
\* bounding box without any tolerance
FootInsideExactly(obj, k, c) ==
    LET n   == Len(obj.vertex)
        p   == WorldFrame(obj, k)
        q   == WorldFrame(obj, IF k = n THEN 1 ELSE k + 1)
        ex  == q[1] - p[1]
        ey  == q[2] - p[2]
        len == ex * ex + ey * ey
        t   == (c[1] - p[1]) * ex + (c[2] - p[2]) * ey
    IN  0 <= t /\ t <= len

\* a collision that is found only because of the tolerance of the bounding
\* box: no vertex is within the radius and no edge has the foot exactly inside
ToleranceOnlyHit ==
    /\ pc = "resolve"
    /\ collision
    /\ Len(evals) > 0
    /\ evals[Len(evals)].test = "edge"
    /\ evals[Len(evals)].result
    /\ LET w == game_objects[evals[Len(evals)].obj]
           c == game_objects[i].pose.position
           r == game_objects[i].radius
       IN  \A k \in 1 .. Len(w.vertex) :
              ~(FootInsideExactly(w, k, c) /\ EdgeWithin(w, k, c, r))

----------------------------------------------------------------------------
(* C1 *)

\* C1: when the check of a robot is resolved, its pose becomes the pose it
\* had before its own motion update if the check was positive and stays the
\* pose its motion update produced if the check was negative; and no later
\* step of the tick alters the pose an already processed robot was left at.
C1_RollbackRestoresSnapshot ==
    [][/\ pc = "resolve" =>
             game_objects'[i].pose = (IF collision THEN preTick[i] ELSE moved)
       /\ InTick =>
             \A k \in 1 .. Len(final) :
                 IsRobotAt(game_objects, k) => game_objects'[k].pose = final[k]
      ]_vars

\* C1 witness: a robot that moved, was found colliding and is back at its
\* pre-update pose while the tick goes on
C1_Witness ==
    /\ pc = "object"
    /\ i > 1
    /\ IsRobotAt(game_objects, i - 1)
    /\ collision
    /\ moved # preTick[i - 1]
    /\ game_objects[i - 1].pose = preTick[i - 1]

----------------------------------------------------------------------------
(* C2 *)

\* C2: the robot-vs-robot predicate is evaluated for exactly the other
\* robots the inner loop has reached, and is positive exactly when the
\* centres are strictly closer than the sum of the radii; a robot strictly
\* closer than that to another robot is flagged and rolled back, and one
\* that overlaps nothing (tangency included) is not flagged and keeps the
\* pose of its motion update.
C2_RobotPredicateStrict ==
    [][(pc \in {"check", "resolve"}) =>
        /\ \A n \in 1 .. Len(evals) :
              evals[n].test = "robot" =>
                  /\ IsRobotAt(game_objects, evals[n].obj)
                  /\ evals[n].obj # i
                  /\ evals[n].result
                         = CirclesOverlap(game_objects, i, evals[n].obj)
        /\ \A b \in 1 .. (IF pc = "check" THEN j - 1 ELSE j) :
              (IsRobotAt(game_objects, b) /\ b # i) =>
                  \E n \in 1 .. Len(evals) :
                      evals[n].test = "robot" /\ evals[n].obj = b
        /\ pc = "resolve" =>
              /\ (\E b \in 1 .. Len(game_objects) :
                      /\ IsRobotAt(game_objects, b)
                      /\ b # i
                      /\ CirclesOverlap(game_objects, i, b))
                  => (collision /\ game_objects'[i].pose = preTick[i])
              /\ ~Overlaps(game_objects, i)
                  => (~collision /\ game_objects'[i].pose = moved)
      ]_vars

\* C2 witness: a robot that moved to exact tangency with another robot and
\* is not flagged
C2_Witness ==
    /\ pc = "resolve"
    /\ ~collision
    /\ moved.position # preTick[i].position
    /\ \E b \in 1 .. Len(game_objects) :
          /\ IsRobotAt(game_objects, b)
          /\ b # i
          /\ CirclesTangent(game_objects, i, b)

----------------------------------------------------------------------------
(* C3 *)

\* C3 as stated: in a tick with zero time delta no pose changes and the
\* collision flag is never set, whatever the starting arrangement.
C3_Original ==
    (InTick /\ t_interval = 0) =>
        (Poses(game_objects) = preTick /\ ~collision)

\* C3 as amended: in a tick with zero time delta no pose ever changes; the
\* collision flag of a robot is set exactly when that robot already
\* satisfied the collision predicate when the tick was entered, so it is
\* never set when no robot did.
C3_ZeroDeltaTick ==
    [][(InTick /\ t_interval = 0) =>
        /\ Poses(game_objects') = Poses(game_objects)
        /\ Poses(game_objects) = preTick
        /\ pc = "resolve" =>
              collision = Overlaps(WithPoses(game_objects, preTick), i)
        /\ (\A a \in 1 .. Len(game_objects) :
                IsRobotAt(game_objects, a) =>
                    ~Overlaps(WithPoses(game_objects, preTick), a))
            => ~collision
      ]_vars

\* C3 witness: a zero-delta tick over two tangent robots, the second one
\* checked and found free
C3_Witness ==
    /\ t_interval = 0
    /\ pc = "resolve"
    /\ ~collision
    /\ cleanAtStart
    /\ \E b \in 1 .. i - 1 :
          IsRobotAt(game_objects, b) /\ CirclesTangent(game_objects, i, b)

----------------------------------------------------------------------------
(* C4 *)

NoZones(objs) == SelectSeq(objs, LAMBDA o : o.type # "Zone")

IndexWithoutZones(objs, a) ==
    a - Cardinality({k \in 1 .. a : objs[k].type = "Zone"})

\* the centre of robot a lies in the area of the zone b
InsideZone(objs, a, b) ==
    LET c  == objs[a].pose.position
        xs == {WorldFrame(objs[b], k)[1] : k \in 1 .. Len(objs[b].vertex)}
        ys == {WorldFrame(objs[b], k)[2] : k \in 1 .. Len(objs[b].vertex)}
    IN  /\ \E x \in xs : x <= c[1]
        /\ \E x \in xs : x >= c[1]
        /\ \E y \in ys : y <= c[2]
        /\ \E y \in ys : y >= c[2]

\* C4: no predicate is ever evaluated against a zone, and the result of a
\* robot's check is the result the check gives with the zones removed from
\* game_objects.
C4_ZonesPassThrough ==
    /\ pc \in {"check", "resolve"} =>
          \A n \in 1 .. Len(evals) : game_objects[evals[n].obj].type # "Zone"
    /\ pc = "resolve" =>
          collision = Collides(NoZones(game_objects),
                               IndexWithoutZones(game_objects, i))

\* C4 witness: a robot that moved onto a corner of a zone's area and is
\* found free
C4_Witness ==
    /\ pc = "resolve"
    /\ ~collision
    /\ moved.position # preTick[i].position
    /\ \E b \in 1 .. Len(game_objects) :
          /\ game_objects[b].type = "Zone"
          /\ InsideZone(game_objects, i, b)
          /\ \E k \in 1 .. Len(game_objects[b].vertex) :
                WorldFrame(game_objects[b], k) = game_objects[i].pose.position

----------------------------------------------------------------------------
(* C5 *)

\* C5: a call of add_game_object with a value that is no GameObject raises
\* a TypeError naming the value's type and leaves game_objects as it was; a
\* call with a GameObject appends it as the last element and leaves the
\* earlier elements and their order as they were.
C5_TypeCheckedAppend ==
    [][(pc = "setup" /\ pc' = "setup") =>
        IF lastArg'.type \in {"GameObject", "Robot", "Wall", "Zone"}
        THEN /\ game_objects' = game_objects \o <<lastArg'>>
             /\ raised' = <<>>
        ELSE /\ game_objects' = game_objects
             /\ raised' = <<"TypeError", "Cannot add '", lastArg'.type,
                            "' type as a game object.">>
      ]_vars

\* C5 witness: an int was rejected after two objects had been registered
C5_Witness ==
    /\ pc = "setup"
    /\ Len(game_objects) = 2
    /\ lastArg.type = "int"
    /\ raised = <<"TypeError", "Cannot add '", "int", "' type as a game object.">>

----------------------------------------------------------------------------
(* C6 *)

\* C6: a step of the check or of the resolution of robot i changes nothing
\* of game_objects but the pose of robot i: the other objects, the vertex
\* lists, and the membership and order of game_objects stay as they were,
\* and the check itself writes nothing at all.
C6_ObstaclesNeverMoved ==
    [][(pc \in {"check", "resolve"}) =>
        /\ Len(game_objects') = Len(game_objects)
        /\ \A k \in 1 .. Len(game_objects) :
              /\ k # i => game_objects'[k] = game_objects[k]
              /\ [game_objects'[k] EXCEPT !.pose = NoPose]
                     = [game_objects[k] EXCEPT !.pose = NoPose]
        /\ pc = "check" => game_objects' = game_objects
      ]_vars

\* C6 witness: a robot was rolled back after hitting a wall, with another
\* robot registered
C6_Witness ==
    /\ pc = "object"
    /\ i > 1
    /\ IsRobotAt(game_objects, i - 1)
    /\ collision
    /\ Len(evals) > 0
    /\ evals[Len(evals)].test \in {"vertex", "edge"}
    /\ evals[Len(evals)].result
    /\ moved # game_objects[i - 1].pose
    /\ \E k \in 1 .. Len(game_objects) :
          k # i - 1 /\ IsRobotAt(game_objects, k)

----------------------------------------------------------------------------
(* C7 *)

\* the poses robot i is checked against under the sequential policy
SequentialPoses ==
    [k \in 1 .. Len(game_objects) |->
        IF k < i THEN final[k] ELSE IF k = i THEN moved ELSE preTick[k]]

\* the poses robot i would be checked against with a snapshot of the
\* previous tick
SnapshotPoses ==
    [k \in 1 .. Len(game_objects) |-> IF k = i THEN moved ELSE preTick[k]]

\* C7: while robot i is checked, every object before it is at the pose it
\* was left at in this tick, every object after it is at its pre-tick pose,
\* robot i is at the pose of its motion update, and the result of the check
\* is the one these poses give.
C7_SequentialProcessing ==
    pc \in {"check", "resolve"} =>
        /\ Len(final) = i - 1
        /\ Poses(game_objects) = SequentialPoses
        /\ pc = "resolve" =>
              collision = Overlaps(WithPoses(game_objects, SequentialPoses), i)

\* C7 witness: an earlier robot has moved in this tick and the result of the
\* check of robot i is not the one a previous-tick snapshot would give
C7_Witness ==
    /\ pc = "resolve"
    /\ \E k \in 1 .. i - 1 :
          IsRobotAt(game_objects, k) /\ final[k] # preTick[k]
    /\ collision # Overlaps(WithPoses(game_objects, SnapshotPoses), i)

----------------------------------------------------------------------------
(* C8 *)

\* C8: the objects are examined in registration order and the first positive
\* predicate is the last predicate evaluated for the robot under test.
C8_ShortCircuit ==
    /\ \A m, n \in 1 .. Len(evals) : m < n => evals[m].obj <= evals[n].obj
    /\ \A n \in 1 .. Len(evals) - 1 : ~evals[n].result

----------------------------------------------------------------------------
(* C10 *)

\* C10: if no robot satisfied the collision predicate when the tick was
\* entered, then none does whenever an object has been processed, and none
\* does when the tick is over.
C10_NonOverlapPreserved ==
    (cleanAtStart /\ pc \in {"object", "idle"}) =>
        \A a \in 1 .. Len(game_objects) :
            IsRobotAt(game_objects, a) => ~Overlaps(game_objects, a)

\* C10 witness: in a tick entered without overlap, one robot's move was
\* accepted and the next robot's move was rolled back
C10_Witness ==
    /\ cleanAtStart
    /\ t_interval = 1
    /\ pc = "object"
    /\ i > 2
    /\ IsRobotAt(game_objects, i - 1)
    /\ collision
    /\ moved # game_objects[i - 1].pose
    /\ \E k \in 1 .. i - 2 :
          IsRobotAt(game_objects, k) /\ final[k].position # preTick[k].position

====
